---- MODULE Spec2Model ----
(***************************************************************************)
(* Model of simultaneous_heating_cooling/streamlit_simultaneous.py: a      *)
(* Streamlit script that is re-executed from the top on every user         *)
(* interaction.  One run = load_data (cached) -> building selector ->      *)
(* threshold input, merge and filter -> presentation and CSV download.     *)
(*                                                                         *)
(* Strings that the script inspects (column headers, building names, the   *)
(* output file name) are sequences of tokens; the Python string is the     *)
(* concatenation of the tokens.  The tokens are                            *)
(*   " "  "(kbtuh)"  ".1"  "A"  "B"  "CHW"  "MTHW"  "Timestamp"            *)
(*   "datetime"  "_"  "simultaneous_"  ".csv"  "CHW_on" "MTHW_on" "simul"  *)
(* No token of a header contains a space except " " itself, no two tokens  *)
(* start with the same character, and the literal " CHW (kbtuh)" can only  *)
(* start at a token boundary, so matching, replacing and comparing token   *)
(* by token gives what Python gives character by character.                *)
(*                                                                         *)
(* A DataFrame is [columns |-> sequence of column names,                   *)
(*                 rows    |-> sequence of tuples aligned with columns].   *)
(***************************************************************************)
EXTENDS Integers, Sequences, FiniteSets, TLC

VARIABLES
  file,              \* content of data.xlsm on disk: [chw |-> sheet, mthw |-> sheet]
  cache,             \* st.cache_data entry of load_data: <<>> or <<chw_df, mthw_df>>
  reads,             \* number of times load_data's body has run
  load_chw_df,       \* load_data's local chw_df between lines 23 and 24
  sel,               \* selectbox widget state kept across reruns (<<>> = untouched)
  threshold,         \* number_input widget value
  pc,                \* position of the current script run
  chw_df, mthw_df,   \* line 34
  chw_buildings, mthw_buildings, common_buildings,   \* lines 49-53
  building,          \* line 56 (<<>> models None)
  df, simul_df,      \* lines 87-100
  table,             \* what st.dataframe shows, line 109
  ui,                \* elements rendered so far in this run, <<kind, label>>
  out_file, csv      \* lines 156-159

vars == <<file, cache, reads, load_chw_df, sel, threshold, pc, chw_df, mthw_df,
          chw_buildings, mthw_buildings, common_buildings, building,
          df, simul_df, table, ui, out_file, csv>>

(***************************************************************************)
(* Bounds of the input spaces.                                             *)
(***************************************************************************)
MaxCols == 3
MaxRows == 2

(***************************************************************************)
(* Generic helpers.                                                        *)
(***************************************************************************)
Range(s) == {s[i] : i \in 1..Len(s)}

SetMin(S) == CHOOSE x \in S : \A y \in S : x <= y

RECURSIVE SeqsOfLen(_, _)
SeqsOfLen(S, n) ==
  IF n = 0 THEN {<<>>}
  ELSE {Append(s, x) : s \in SeqsOfLen(S, n - 1), x \in S}

SeqsUpTo(S, n) == UNION {SeqsOfLen(S, k) : k \in 0..n}

DistinctSeqsUpTo(S, n) ==
  {s \in SeqsUpTo(S, n) : \A i, j \in 1..Len(s) : i # j => s[i] # s[j]}

(***************************************************************************)
(* Configuration, lines 11-14, and widget parameters, lines 68-74.         *)
(***************************************************************************)
min_value == 0
max_value == 5000
value == 700
step == 50

NaT == -1

EmptyDf == [columns |-> <<>>, rows |-> <<>>]
EmptyCsv == [header |-> <<>>, records |-> <<>>]

TimestampCol == <<"Timestamp">>
DatetimeCol == <<"datetime">>

(***************************************************************************)
(* Loader: load_data, lines 21-32.  A Timestamp cell of the sheet is       *)
(* [kind, t]: an Excel date cell ("datetime") or a text cell holding a     *)
(* date ("text") of hour t, a text cell that is no date ("garbage"), or an *)
(* empty cell ("blank").                                                   *)
(***************************************************************************)
ColIndex(columns, name) == CHOOSE i \in 1..Len(columns) : columns[i] = name

HasCol(columns, name) == name \in Range(columns)

RemoveAt(s, i) == SubSeq(s, 1, i - 1) \o SubSeq(s, i + 1, Len(s))

\* pd.to_datetime(..., errors="coerce") on one cell, line 28
to_datetime(cell) ==
  IF cell.kind \in {"datetime", "text"} THEN cell.t ELSE NaT

\* df["datetime"] = pd.to_datetime(df["Timestamp"], errors="coerce"), line 28
AddDatetime(d) ==
  LET ti == ColIndex(d.columns, TimestampCol)
  IN [columns |-> Append(d.columns, DatetimeCol),
      rows |-> [i \in 1..Len(d.rows) |->
                   Append(d.rows[i], to_datetime(d.rows[i][ti]))]]

\* df.dropna(subset=["datetime"], inplace=True), line 29
dropna(d) ==
  LET di == ColIndex(d.columns, DatetimeCol)
  IN [d EXCEPT !.rows = SelectSeq(d.rows, LAMBDA r : r[di] # NaT)]

RECURSIVE InsertRow(_, _, _)
InsertRow(sorted, r, di) ==
  IF sorted = <<>> THEN <<r>>
  ELSE IF r[di] < Head(sorted)[di] THEN <<r>> \o sorted
  ELSE <<Head(sorted)>> \o InsertRow(Tail(sorted), r, di)

RECURSIVE SortRows(_, _)
SortRows(rows, di) ==
  IF rows = <<>> THEN <<>>
  ELSE InsertRow(SortRows(SubSeq(rows, 1, Len(rows) - 1), di),
                 rows[Len(rows)], di)

\* df.sort_values("datetime", inplace=True), line 30: ascending; numpy's
\* quicksort is an insertion sort below 17 elements, so equal keys keep
\* their order.
sort_values(d) ==
  [d EXCEPT !.rows = SortRows(d.rows, ColIndex(d.columns, DatetimeCol))]

\* one iteration of the loop of lines 27-30
FixTimestamp(sheet) == sort_values(dropna(AddDatetime(sheet)))

\* pd.read_excel(DATA_FILE, sheet_name=...), lines 23-24
read_excel(f, sheet_name) ==
  IF sheet_name = "CHW hourly" THEN f.chw ELSE f.mthw

\* what the body of load_data, lines 23-32, returns when the file holds f
\* at both of its reads
load_data(f) ==
  <<FixTimestamp(read_excel(f, "CHW hourly")),
    FixTimestamp(read_excel(f, "MTHW hourly"))>>

(***************************************************************************)
(* Header parser, lines 40-53.                                             *)
(***************************************************************************)
\* the literal tail of the pattern fr"(.+?) {suffix} \(kbtuh\)", line 41
PatternTail(suffix) == <<" ", suffix, " ", "(kbtuh)">>

\* ends of group 1 at which the literal tail follows
MatchEnds(col, suffix) ==
  {k \in 1..Len(col) :
     /\ k + 4 <= Len(col)
     /\ SubSeq(col, k + 1, k + 4) = PatternTail(suffix)}

\* re.match(pattern, col), line 44: anchored at the start only, group 1
\* non-greedy and non-empty; <<>> models "no match"
re_match(col, suffix) ==
  LET ks == MatchEnds(col, suffix)
  IN IF ks = {} THEN <<>> ELSE SubSeq(col, 1, SetMin(ks))

RECURSIVE extract_building_names(_, _)
extract_building_names(columns, suffix) ==
  IF columns = <<>> THEN <<>>
  ELSE LET m == re_match(Head(columns), suffix)
           rest == extract_building_names(Tail(columns), suffix)
       IN IF m # <<>> THEN <<m>> \o rest ELSE rest

\* code point of the first character of a token
Ord(tok) ==
  CASE tok = " " -> 32
    [] tok = "(kbtuh)" -> 40
    [] tok = ".1" -> 46
    [] tok = "A" -> 65
    [] tok = "B" -> 66
    [] tok = "CHW" -> 67
    [] tok = "MTHW" -> 77
    [] tok = "Timestamp" -> 84
    [] tok = "_" -> 95
    [] OTHER -> 100

\* Python's str.__lt__
RECURSIVE StrLess(_, _)
StrLess(a, b) ==
  IF b = <<>> THEN FALSE
  ELSE IF a = <<>> THEN TRUE
  ELSE IF Head(a) = Head(b) THEN StrLess(Tail(a), Tail(b))
  ELSE Ord(Head(a)) < Ord(Head(b))

\* sorted(list(S)), line 53
RECURSIVE sorted(_)
sorted(S) ==
  IF S = {} THEN <<>>
  ELSE LET m == CHOOSE x \in S : \A y \in S \ {x} : StrLess(x, y)
       IN <<m>> \o sorted(S \ {m})

CommonBuildingsUnion(cb, mb) == sorted(Range(cb) \cup Range(mb))

\* sorted(list(set(chw_buildings) & set(mthw_buildings))), line 53
CommonBuildings(cb, mb) == sorted(Range(cb) \cap Range(mb))

\* st.selectbox(..., options=common_buildings), line 56: the user's choice
\* while it is an option, else the first option, None without options
selectbox(options, choice) ==
  IF choice \in Range(options) THEN choice
  ELSE IF options = <<>> THEN <<>>
  ELSE options[1]

\* lines 81-82
ChwCol(b) == b \o PatternTail("CHW")
MthwCol(b) == b \o PatternTail("MTHW")

(***************************************************************************)
(* Joiner / filter, lines 87-100.                                          *)
(***************************************************************************)
\* d[[c1, c2, ...]]
Project(d, cols) ==
  [columns |-> cols,
   rows |-> [i \in 1..Len(d.rows) |->
               [j \in 1..Len(cols) |-> d.rows[i][ColIndex(d.columns, cols[j])]]]]

RECURSIVE JoinRows(_, _, _, _)
JoinRows(lrows, rrows, li, ri) ==
  IF lrows = <<>> THEN <<>>
  ELSE LET l == Head(lrows)
           ms == SelectSeq(rrows, LAMBDA r : r[ri] = l[li])
       IN [k \in 1..Len(ms) |-> l \o RemoveAt(ms[k], ri)]
          \o JoinRows(Tail(lrows), rrows, li, ri)

\* pd.merge(left, right, on=key, how="inner"), lines 87-92: one row per
\* pair of a left and a right row with equal keys, in left order
pd_merge(left, right, key) ==
  LET li == ColIndex(left.columns, key)
      ri == ColIndex(right.columns, key)
  IN [columns |-> left.columns \o RemoveAt(right.columns, ri),
      rows |-> JoinRows(left.rows, right.rows, li, ri)]

\* df.rename(columns={from1: to1, from2: to2}), line 94
rename(d, from1, to1, from2, to2) ==
  [d EXCEPT !.columns =
     [j \in 1..Len(d.columns) |->
        IF d.columns[j] = from1 THEN to1
        ELSE IF d.columns[j] = from2 THEN to2
        ELSE d.columns[j]]]

GreaterEq(v, t) == v >= t
Less(v, t) == v < t

\* the comparison of lines 96-97
Greater(v, t) == v > t

\* lines 96-98: three boolean columns added at the right
Analyze(d, t) ==
  LET ci == ColIndex(d.columns, <<"CHW">>)
      mi == ColIndex(d.columns, <<"MTHW">>)
  IN [columns |-> d.columns \o <<<<"CHW_on">>, <<"MTHW_on">>, <<"simul">>>>,
      rows |-> [i \in 1..Len(d.rows) |->
                  LET CHW_on == Greater(d.rows[i][ci], t)
                      MTHW_on == Greater(d.rows[i][mi], t)
                  IN d.rows[i] \o <<CHW_on, MTHW_on, CHW_on /\ MTHW_on>>]]

\* df[df["simul"]], line 100
SimulRows(d) ==
  LET si == ColIndex(d.columns, <<"simul">>)
  IN [d EXCEPT !.rows = SelectSeq(d.rows, LAMBDA r : r[si])]

\* lines 87-94: the joined table of one building
Joined(cdf, mdf, b) ==
  rename(pd_merge(Project(cdf, <<DatetimeCol, ChwCol(b)>>),
                  Project(mdf, <<DatetimeCol, MthwCol(b)>>),
                  DatetimeCol),
         ChwCol(b), <<"CHW">>, MthwCol(b), <<"MTHW">>)

(***************************************************************************)
(* Presenter, lines 105-159.                                               *)
(***************************************************************************)
DisplayCols == <<DatetimeCol, <<"CHW">>, <<"MTHW">>>>

\* how to_csv writes a timestamp, a bool and an integer
FormatField(name, v) ==
  IF name = DatetimeCol THEN "2024-01-01 0" \o ToString(v) \o ":00:00"
  ELSE IF name \in {<<"CHW_on">>, <<"MTHW_on">>, <<"simul">>}
       THEN (IF v THEN "True" ELSE "False")
  ELSE ToString(v)

\* DataFrame.to_csv(index=False), line 159: a header line, then one record
\* per row, every column of the frame
to_csv(d) ==
  [header |-> d.columns,
   records |-> [i \in 1..Len(d.rows) |->
                  [j \in 1..Len(d.columns) |->
                     FormatField(d.columns[j], d.rows[i][j])]]]

\* building.replace(' ', '_'), line 156
Replace(s, old, new) ==
  [i \in 1..Len(s) |-> IF s[i] = old THEN new ELSE s[i]]

\* line 156
OutFile(b) == <<"simultaneous_">> \o Replace(b, " ", "_") \o <<".csv">>

(***************************************************************************)
(* The script as a state machine.  A run goes                              *)
(*   "load" [-> "read_mthw"] -> "select" -> "merge" -> "present" -> "done" *)
(* and ends early in "stopped" (st.stop(), line 59) or in "error" (an      *)
(* uncaught KeyError of lines 88-89).  Widget state (sel, threshold) and   *)
(* the cache outlive a run; everything else is rebuilt by the next run.    *)
(***************************************************************************)
Terminal == {"done", "stopped", "error"}

\* kinds of element that tell the user something in words
MessageKinds == {"success", "info", "warning", "error", "exception", "write"}

\* values the user can enter in the number_input of lines 68-74
ThresholdInputs == {min_value, value, value + step, max_value}

\* a new run starts with the script's names unbound and an empty page
FreshRun ==
  /\ pc' = "load"
  /\ chw_df' = EmptyDf /\ mthw_df' = EmptyDf
  /\ chw_buildings' = <<>> /\ mthw_buildings' = <<>>
  /\ common_buildings' = <<>> /\ building' = <<>>
  /\ df' = EmptyDf /\ simul_df' = EmptyDf /\ table' = EmptyDf
  /\ ui' = <<>> /\ out_file' = <<>> /\ csv' = EmptyCsv

\* the state after the server starts and a session opens on file f
InitOn(f) ==
  /\ file = f
  /\ cache = <<>> /\ reads = 0 /\ load_chw_df = EmptyDf
  /\ sel = <<>> /\ threshold = value
  /\ pc = "load"
  /\ chw_df = EmptyDf /\ mthw_df = EmptyDf
  /\ chw_buildings = <<>> /\ mthw_buildings = <<>>
  /\ common_buildings = <<>> /\ building = <<>>
  /\ df = EmptyDf /\ simul_df = EmptyDf /\ table = EmptyDf
  /\ ui = <<>> /\ out_file = <<>> /\ csv = EmptyCsv

\* lines 16-34, first part: the title, then the call of load_data() behind
\* @st.cache_data.  The function takes no argument, so its cache has one
\* entry, keyed by the function alone: the entry is returned when there is
\* one, whatever the file holds by then; otherwise the body starts and
\* line 23 reads the CHW sheet from the file as it is now.
LoadData ==
  /\ pc = "load"
  /\ ui' = <<<<"title", "Simultaneous Heating + Cooling Analyzer">>>>
  /\ IF cache = <<>>
     THEN /\ load_chw_df' = read_excel(file, "CHW hourly")
          /\ reads' = reads + 1
          /\ pc' = "read_mthw"
          /\ UNCHANGED <<chw_df, mthw_df>>
     ELSE /\ chw_df' = cache[1]
          /\ mthw_df' = cache[2]
          /\ pc' = "select"
          /\ UNCHANGED <<load_chw_df, reads>>
  /\ UNCHANGED <<file, cache, sel, threshold, chw_buildings, mthw_buildings,
                 common_buildings, building, df, simul_df, table,
                 out_file, csv>>

\* lines 24-34: the body of load_data goes on: line 24 opens the file again,
\* as it is now, for the MTHW sheet; the loop of lines 27-30 fixes both
\* tables; the pair is returned, cached and bound by line 34.
LoadDataReadMthw ==
  /\ pc = "read_mthw"
  /\ LET res == <<FixTimestamp(load_chw_df),
                  FixTimestamp(read_excel(file, "MTHW hourly"))>>
     IN /\ cache' = res
        /\ chw_df' = res[1]
        /\ mthw_df' = res[2]
  /\ load_chw_df' = EmptyDf
  /\ pc' = "select"
  /\ UNCHANGED <<file, reads, sel, threshold, chw_buildings, mthw_buildings,
                 common_buildings, building, df, simul_df, table, ui,
                 out_file, csv>>

\* lines 49-61
SelectBuilding ==
  /\ pc = "select"
  /\ LET cb == extract_building_names(chw_df.columns, "CHW")
         mb == extract_building_names(mthw_df.columns, "MTHW")
         common == CommonBuildings(cb, mb)
         b == selectbox(common, sel)
         shown == ui \o <<<<"subheader", "Select Building">>,
                          <<"selectbox", "Choose a building:">>>>
     IN /\ chw_buildings' = cb
        /\ mthw_buildings' = mb
        /\ common_buildings' = common
        /\ building' = b
        /\ IF b = <<>>
           THEN /\ ui' = shown
                /\ pc' = "stopped"
           ELSE /\ ui' = Append(shown, <<"success", "Selected Building">>)
                /\ pc' = "merge"
  /\ UNCHANGED <<file, cache, reads, load_chw_df, sel, threshold, chw_df,
                 mthw_df, df, simul_df, table, out_file, csv>>

\* lines 66-100
MergeAnalyze ==
  /\ pc = "merge"
  /\ LET shown == ui \o <<<<"subheader", "Threshold Adjustment">>,
                          <<"number_input", "threshold">>,
                          <<"info", "Using threshold">>>>
     IN IF /\ HasCol(chw_df.columns, ChwCol(building))
           /\ HasCol(mthw_df.columns, MthwCol(building))
        THEN /\ df' = Analyze(Joined(chw_df, mthw_df, building), threshold)
             /\ simul_df' = SimulRows(df')
             /\ ui' = shown
             /\ pc' = "present"
        ELSE /\ ui' = Append(shown, <<"exception", "KeyError">>)
             /\ pc' = "error"
             /\ UNCHANGED <<df, simul_df>>
  /\ UNCHANGED <<file, cache, reads, load_chw_df, sel, threshold, chw_df,
                 mthw_df, chw_buildings, mthw_buildings, common_buildings,
                 building, table, out_file, csv>>

\* lines 105-159
Present ==
  /\ pc = "present"
  /\ table' = Project(simul_df, DisplayCols)
  /\ out_file' = OutFile(building)
  /\ csv' = to_csv(simul_df)
  /\ ui' = ui \o <<<<"subheader", "Simultaneous Heating + Cooling Summary">>,
                   <<"write", "Total hours detected">>,
                   <<"dataframe", "simul_df">>,
                   <<"pyplot", "CHW Load">>,
                   <<"pyplot", "MTHW Load">>,
                   <<"pyplot", "Simultaneous Heating + Cooling">>,
                   <<"success", "Saved output file">>,
                   <<"download_button", "Download CSV">>>>
  /\ pc' = "done"
  /\ UNCHANGED <<file, cache, reads, load_chw_df, sel, threshold, chw_df,
                 mthw_df, chw_buildings, mthw_buildings, common_buildings,
                 building, df, simul_df>>

\* the user picks another option of the selectbox: the script reruns
UserSelectBuilding(b) ==
  /\ pc \in {"done", "error"}
  /\ b \in Range(common_buildings)
  /\ b # building
  /\ sel' = b
  /\ FreshRun
  /\ UNCHANGED <<file, cache, reads, load_chw_df, threshold>>

\* the user enters another threshold: the script reruns
UserSetThreshold(t) ==
  /\ pc \in {"done", "error"}
  /\ t # threshold
  /\ threshold' = t
  /\ FreshRun
  /\ UNCHANGED <<file, cache, reads, load_chw_df, sel>>

\* the user asks for a rerun
UserRerun ==
  /\ pc \in Terminal
  /\ FreshRun
  /\ UNCHANGED <<file, cache, reads, load_chw_df, sel, threshold>>

\* data.xlsm is replaced on disk, at any moment of a run or between runs
FileChange(f) ==
  /\ f # file
  /\ file' = f
  /\ UNCHANGED <<cache, reads, load_chw_df, sel, threshold, pc, chw_df, mthw_df,
                 chw_buildings, mthw_buildings, common_buildings, building,
                 df, simul_df, table, ui, out_file, csv>>

RunStep ==
  LoadData \/ LoadDataReadMthw \/ SelectBuilding \/ MergeAnalyze \/ Present

(***************************************************************************)
(* Input spaces.                                                           *)
(***************************************************************************)
Hours == {1, 2}

DateCell(h) == [kind |-> "datetime", t |-> h]
TextCell(h) == [kind |-> "text", t |-> h]
GarbageCell == [kind |-> "garbage", t |-> 0]
BlankCell == [kind |-> "blank", t |-> 0]

\* rows of a sheet with k value columns
RowsFor(cells, vals, k) ==
  {<<c>> \o v : c \in cells, v \in SeqsOfLen(vals, k)}

\* sheets with a Timestamp column, then one of the given header rows
Sheets(headerSeqs, cells, vals, rowLens) ==
  UNION {{[columns |-> <<TimestampCol>> \o h, rows |-> r] :
            r \in UNION {SeqsOfLen(RowsFor(cells, vals, Len(h)), n) :
                           n \in rowLens}} :
         h \in headerSeqs}

Files(chwSheets, mthwSheets) == [chw : chwSheets, mthw : mthwSheets]

NameA == <<"A">>
NameB == <<"B">>
NameAB == <<"A", " ", "B">>

\* the whole application: two buildings, one data row, the file may change
AppHeaders(suffix) ==
  DistinctSeqsUpTo({n \o PatternTail(suffix) : n \in {NameAB, NameB}}, MaxCols)

AppFiles ==
  Files(Sheets(AppHeaders("CHW"), {DateCell(1)}, {value + step}, {1}),
        Sheets(AppHeaders("MTHW"), {DateCell(1)}, {value + step}, {1}))

Init == \E f \in AppFiles : InitOn(f)

Next ==
  \/ RunStep
  \/ \E b \in {NameAB, NameB} : UserSelectBuilding(b)
  \/ \E t \in {value, value + step} : UserSetThreshold(t)
  \/ UserRerun
  \/ \E f \in AppFiles : FileChange(f)

Spec == Init /\ [][Next]_vars

\* header parsing: headers that follow the convention and a header with
\* text after "(kbtuh)" (".1" is what read_excel appends to a repeated
\* header)
HeaderPool(suffix) ==
  {n \o PatternTail(suffix) : n \in {NameA, NameAB, NameB}}
  \cup {NameA \o PatternTail(suffix) \o <<".1">>}

HeaderFiles ==
  Files(Sheets(DistinctSeqsUpTo(HeaderPool("CHW"), MaxCols),
               {DateCell(1)}, {value + step}, {1}),
        Sheets(DistinctSeqsUpTo(HeaderPool("MTHW"), MaxCols),
               {DateCell(1)}, {value + step}, {1}))

InitHeaders == \E f \in HeaderFiles : InitOn(f)

NextHeaders ==
  \/ RunStep
  \/ \E b \in {NameA, NameAB, NameB} : UserSelectBuilding(b)

SpecHeaders == InitHeaders /\ [][NextHeaders]_vars

\* timestamp parsing: one building, every kind of Timestamp cell
LoadCells == {DateCell(1), DateCell(2), TextCell(1), GarbageCell, BlankCell}

LoadFiles ==
  Files(Sheets({<<ChwCol(NameA)>>}, LoadCells, {value + step}, 0..MaxRows),
        Sheets({<<MthwCol(NameA)>>}, LoadCells, {value + step}, 0..MaxRows))

InitLoad == \E f \in LoadFiles : InitOn(f)

NextLoad == RunStep \/ UserRerun

SpecLoad == InitLoad /\ [][NextLoad]_vars

\* join and filter: one building, valid timestamps, loads at and above the
\* default threshold, every threshold the user can enter
JoinCells == {DateCell(h) : h \in Hours}

JoinFiles ==
  Files(Sheets({<<ChwCol(NameA)>>}, JoinCells, {value, value + step},
               0..MaxRows),
        Sheets({<<MthwCol(NameA)>>}, JoinCells, {value, value + step},
               0..MaxRows))

InitJoin == \E f \in JoinFiles : InitOn(f)

NextJoin ==
  \/ RunStep
  \/ \E t \in ThresholdInputs : UserSetThreshold(t)

SpecJoin == InitJoin /\ [][NextJoin]_vars

(***************************************************************************)
(* Properties.                                                             *)
(***************************************************************************)
Loaded == pc \notin {"load", "read_mthw"}
Selected == pc \notin {"load", "read_mthw", "select"}
Analyzed == pc \in {"present", "done"}

Min2(a, b) == IF a <= b THEN a ELSE b

DatetimesOf(d) ==
  {d.rows[i][ColIndex(d.columns, DatetimeCol)] : i \in 1..Len(d.rows)}

\* the joined rows that count as simultaneous at threshold t
SimulAt(t) == SimulRows(Analyze(Joined(chw_df, mthw_df, building), t))

SimulSetAt(t) == Range(Project(SimulAt(t), DisplayCols).rows)

\* C1: in every joined row of a run, CHW_on is exactly CHW > threshold,
\* MTHW_on is exactly MTHW > threshold (a load equal to the threshold is
\* not on), simul is their conjunction, and simul_df is exactly the joined
\* rows whose simul is true.
C1_StrictThresholdFlags ==
  Analyzed =>
    /\ df.columns = DisplayCols \o <<<<"CHW_on">>, <<"MTHW_on">>, <<"simul">>>>
    /\ \A i \in 1..Len(df.rows) :
         /\ df.rows[i][4] <=> (df.rows[i][2] > threshold)
         /\ df.rows[i][5] <=> (df.rows[i][3] > threshold)
         /\ df.rows[i][6] <=> (df.rows[i][4] /\ df.rows[i][5])
    /\ simul_df.columns = df.columns
    /\ simul_df.rows = SelectSeq(df.rows, LAMBDA r : r[6])

\* a finished run with a row whose CHW load equals the threshold and is
\* off while its MTHW load is on, and with another row that is simultaneous
C1_Witness ==
  /\ pc = "done"
  /\ \E i \in 1..Len(df.rows) :
       /\ df.rows[i][2] = threshold
       /\ ~df.rows[i][4]
       /\ df.rows[i][5]
  /\ simul_df.rows # <<>>

\* C2: no joined row has a timestamp absent from either loaded sheet, and
\* the joined rows are at most min(CHW rows, MTHW rows).
C2_JoinWithinBothSheets ==
  Analyzed =>
    /\ DatetimesOf(df) \subseteq DatetimesOf(chw_df) \cap DatetimesOf(mthw_df)
    /\ Len(df.rows) <= Min2(Len(chw_df.rows), Len(mthw_df.rows))

\* the rows of a sheet whose Timestamp cell holds a date
ParsedRows(sheet) ==
  SelectSeq(sheet.rows, LAMBDA r : r[1].kind \in {"datetime", "text"})

\* table d is what the loader's contract promises for sheet
LoadedAsSpecified(d, sheet) ==
  LET di == ColIndex(d.columns, DatetimeCol)
      n == Len(d.columns)
  IN /\ \A i \in 1..Len(d.rows) : d.rows[i][di] \in Hours
     /\ Len(d.rows) = Len(ParsedRows(sheet))
     /\ \A r \in Range(ParsedRows(sheet)) :
          Cardinality({i \in 1..Len(d.rows) : SubSeq(d.rows[i], 1, n - 1) = r})
            = Cardinality({i \in 1..Len(sheet.rows) : sheet.rows[i] = r})
     /\ \A i, j \in 1..Len(d.rows) : i < j => d.rows[i][di] <= d.rows[j][di]
     /\ \A i, j \in 1..Len(d.rows) : i # j => d.rows[i][di] # d.rows[j][di]

\* C3: after load_data each table holds exactly the rows of its sheet
\* whose Timestamp parses, in ascending datetime order, and no datetime
\* occurs in two rows.
C3_LoadedValidSortedUnique ==
  Loaded =>
    /\ LoadedAsSpecified(chw_df, file.chw)
    /\ LoadedAsSpecified(mthw_df, file.mthw)

\* C4: the CSV has exactly the columns datetime, CHW, MTHW of the shown
\* table and the rows where both loads exceed the threshold; its name is
\* "simultaneous_" + building with spaces as underscores + ".csv".
C4_CsvColumnsRowsAndName ==
  pc = "done" =>
    /\ csv.header = DisplayCols
    /\ csv.header = table.columns
    /\ Len(csv.records) =
         Cardinality({i \in 1..Len(df.rows) :
                        df.rows[i][2] > threshold /\ df.rows[i][3] > threshold})
    /\ out_file = <<"simultaneous_">>
                    \o [i \in 1..Len(building) |->
                          IF building[i] = " " THEN "_" ELSE building[i]]
                    \o <<".csv">>

\* C5: without a common building the run tells the user why before it
\* stops, and nothing after the selector has run.
C5_StopExplains ==
  pc = "stopped" =>
    /\ common_buildings = <<>>
    /\ \E i \in 1..Len(ui) : ui[i][1] \in MessageKinds
    /\ df = EmptyDf /\ simul_df = EmptyDf /\ table = EmptyDf
    /\ csv = EmptyCsv /\ out_file = <<>>

\* the name in a header that is wholly "<name> <suffix> (kbtuh)", else <<>>
ExactName(col, suffix) ==
  IF /\ Len(col) > 4
     /\ SubSeq(col, Len(col) - 3, Len(col)) = PatternTail(suffix)
  THEN SubSeq(col, 1, Len(col) - 4)
  ELSE <<>>

RECURSIVE ExactNames(_, _)
ExactNames(columns, suffix) ==
  IF columns = <<>> THEN <<>>
  ELSE (IF ExactName(Head(columns), suffix) # <<>>
        THEN <<ExactName(Head(columns), suffix)>> ELSE <<>>)
       \o ExactNames(Tail(columns), suffix)

\* C6: a column yields a name only when the whole header is
\* "<name> <suffix> (kbtuh)" with a non-empty name; any other column
\* yields nothing.
C6_OnlyExactHeaders ==
  Selected =>
    /\ chw_buildings = ExactNames(chw_df.columns, "CHW")
    /\ mthw_buildings = ExactNames(mthw_df.columns, "MTHW")

\* C7: when a run calls load_data, the body runs and reads the file exactly
\* when no tables are cached or the cached tables are not those of the file
\* as it is now, and tables served from the cache are those of the current
\* file: a run after a file change never uses the tables of the old content.
C7_CacheFollowsFile ==
  [][(pc = "load" /\ pc' # "load") =>
       /\ (reads' = reads) <=> (cache = load_data(file))
       /\ pc' = "select" => <<chw_df', mthw_df'>> = load_data(file)]_vars

\* C8: for thresholds t1 < t2 the simultaneous rows at t2 are among the
\* simultaneous rows at t1, and the run's simul_df is the set at its own
\* threshold.
C8_ThresholdMonotone ==
  Analyzed =>
    /\ simul_df = SimulAt(threshold)
    /\ \A t1, t2 \in ThresholdInputs :
         t1 < t2 => SimulSetAt(t2) \subseteq SimulSetAt(t1)

\* a finished run at threshold 0 whose simultaneous rows shrink, without
\* vanishing, at a larger threshold
C8_Witness ==
  /\ pc = "done"
  /\ threshold = min_value
  /\ \E t2 \in ThresholdInputs :
       /\ t2 > threshold
       /\ SimulAt(t2).rows # <<>>
       /\ Len(SimulAt(t2).rows) < Len(simul_df.rows)

\* every reordering of a sequence
Permuted(s) ==
  {[i \in 1..Len(s) |-> s[p[i]]] : p \in Permutations(1..Len(s))}

\* the columns read from the sheet, before load_data appended datetime
SheetColumns(d) == SubSeq(d.columns, 1, Len(d.columns) - 1)

\* C9: common_buildings is the strictly ascending list of exactly the names
\* extracted from both sheets, whatever the order of either sheet's columns
\* (load_data appends datetime to the columns it reads).
C9_CommonBuildingsSortedIntersection ==
  Selected =>
    /\ chw_buildings = extract_building_names(chw_df.columns, "CHW")
    /\ mthw_buildings = extract_building_names(mthw_df.columns, "MTHW")
    /\ \A i, j \in 1..Len(common_buildings) :
         i < j => StrLess(common_buildings[i], common_buildings[j])
    /\ Range(common_buildings)
         = {n \in Range(chw_buildings) : n \in Range(mthw_buildings)}
    /\ \A c \in Permuted(SheetColumns(chw_df)) :
         CommonBuildings(
           extract_building_names(Append(c, DatetimeCol), "CHW"),
           mthw_buildings) = common_buildings
    /\ \A m \in Permuted(SheetColumns(mthw_df)) :
         CommonBuildings(
           chw_buildings,
           extract_building_names(Append(m, DatetimeCol), "MTHW"))
           = common_buildings

\* two common buildings extracted from the CHW sheet in descending order, a
\* third CHW building that the MTHW sheet lacks, and an MTHW name extracted
\* twice
C9_Witness ==
  /\ pc = "merge"
  /\ Len(common_buildings) = 2
  /\ \E i, j \in 1..Len(chw_buildings) :
       /\ i < j
       /\ chw_buildings[i] = common_buildings[2]
       /\ chw_buildings[j] = common_buildings[1]
  /\ \E n \in Range(chw_buildings) : n \notin Range(mthw_buildings)
  /\ \E i, j \in 1..Len(mthw_buildings) :
       i # j /\ mthw_buildings[i] = mthw_buildings[j]

\* C10: the two column names rebuilt from any common building are columns
\* of the CHW sheet and of the MTHW sheet, so the merge never fails on a
\* missing column.
C10_RebuiltColumnsExist ==
  /\ Selected =>
       \A b \in Range(common_buildings) :
         /\ HasCol(chw_df.columns, ChwCol(b))
         /\ HasCol(mthw_df.columns, MthwCol(b))
  /\ pc # "error"

====
